---- MODULE Spec2Model ----
(***************************************************************************)
(* A state-machine model of pywr/parameters/parameters.py: the parameter   *)
(* graph (AggregatedParameter, ScaledProfileParameter, ConstantParameter)  *)
(* and the DataFrameParameter with align_and_resample_dataframe.           *)
(*                                                                         *)
(* Numbers are exact rationals <<num, den>> in lowest terms with den > 0;  *)
(* on the small integers used here float64 sums and products are exact.    *)
(* An exception raised by an operation is recorded in last.err.            *)
(***************************************************************************)
EXTENDS Integers, Sequences, FiniteSets, TLC

\* ------------------------------------------------------------------ bounds
\* constant leaves available to the aggregation specification
NumLeaves == 5
\* constant leaves used while the graph is being built and mutated
NumGraphLeaves == 3
\* longest list handed to the AggregatedParameter constructor
MaxListLen == 2
\* most rows of a source DataFrame
MaxRows == 4
\* most timesteps of the model's datetime_index
MaxSteps == 3

Leaves == 1..NumLeaves
GraphLeaves == 1..NumGraphLeaves
\* object ids: the constant leaves are 1..NumLeaves
\* the DataFrameParameter object
DF == 0
\* the kernel a DataFrameParameter builds in setup
Kernel == -1
\* the AggregatedParameter object
Agg == 101
\* the ScaledProfileParameter object
Scaled == 201
Aggs == {Agg}
Params == {DF} \cup Leaves
Owners == Aggs \cup {Scaled}

\* ---------------------------------------------------------------- numbers
Abs(x) == IF x < 0 THEN -x ELSE x

RECURSIVE GCD(_, _)
GCD(a, b) == IF b = 0 THEN a ELSE GCD(b, a % b)

Rat(n, d) ==
    LET g == GCD(Abs(n), d)
    IN  IF g = 0 THEN <<0, 1>> ELSE <<n \div g, d \div g>>

RatAdd(x, y) == Rat(x[1] * y[2] + y[1] * x[2], x[2] * y[2])
RatMul(x, y) == Rat(x[1] * y[1], x[2] * y[2])
RatLess(x, y) == x[1] * y[2] < y[1] * x[2]

\* results of an evaluation: a number, nan, or a raised exception
Num(q) == [kind |-> "num", q |-> q]
NaN == [kind |-> "nan", q |-> <<0, 1>>]
Raised(e) == [kind |-> e, q |-> <<0, 1>>]
NoResult == [kind |-> "none", q |-> <<0, 1>>]
IsNum(r) == r.kind = "num"

\* ------------------------------------------------------------------ state
VARIABLES
    built,        \* per AggregatedParameter object: "unbuilt", "built", "failed"
    parameters,   \* AggregatedParameter._parameters, in the set's iteration order
    agg_func,     \* AggregatedParameter.agg_func after name resolution
    parents,      \* Parameter.parents of every child parameter
    setupDone,    \* history: setup has been called on the AggregatedParameter
    scaled,       \* the ScaledProfileParameter: its scale and profile, or unbuilt
    df,           \* DataFrameParameter.df
    scenario,     \* DataFrameParameter.scenario: 0 is None, else its size
    param,        \* DataFrameParameter._param: the resolved kernel or None
    last,         \* the most recent call: operation, receiver, argument, exception
    result,       \* what the most recent value call returned
    reached       \* history: the parameters whose hook the most recent hook call ran

vars == <<built, parameters, agg_func, parents, setupDone, scaled, df, scenario, param,
          last, result, reached>>

graphVars == <<built, parameters, agg_func, parents, setupDone, scaled>>
dfVars == <<df, scenario, param>>

NoGrid == [first |-> 0, freq |-> 0, n |-> 0]

\* a call record; list is the list a constructor was given, member tells whether
\* arg was a child of the receiver when add or remove was called, ix is the
\* datetime_index of the model a setup was given
Call(op, node, arg, err) ==
    [op |-> op, node |-> node, arg |-> arg, err |-> err,
     ts |-> 0, si |-> 0, list |-> <<>>, member |-> FALSE, ix |-> NoGrid]

NoKernel == [kind |-> "None", values |-> <<>>]

\* ------------------------------------------------------- sequence helpers
Range(s) == {s[i] : i \in 1..Len(s)}
Member(p, s) == p \in Range(s)

RECURSIVE SeqsUpTo(_, _)
SeqsUpTo(S, n) ==
    IF n = 0 THEN {<<>>}
    ELSE LET shorter == SeqsUpTo(S, n - 1)
         IN  shorter \cup {Append(s, x) : s \in {t \in shorter : Len(t) = n - 1}, x \in S}

NoDup(s) == \A i, j \in 1..Len(s) : i # j => s[i] # s[j]

RemoveAt(s, i) == SubSeq(s, 1, i - 1) \o SubSeq(s, i + 1, Len(s))

\* ------------------------------------------------------------ python set
\* set.add: an element already present is not added again
SetAdd_append(s, p) == Append(s, p)

SetAdd(s, p) == IF Member(p, s) THEN s ELSE Append(s, p)

RECURSIVE SetFromList(_)
\* set(parameters): the list's elements, each once
SetFromList(l) ==
    IF l = <<>> THEN <<>>
    ELSE SetAdd(SetFromList(SubSeq(l, 1, Len(l) - 1)), l[Len(l)])

\* set.discard: removing an element that is absent is not an error
SetRemove_discard(s, p) ==
    IF Member(p, s)
    THEN [err |-> "none", set |-> RemoveAt(s, CHOOSE i \in 1..Len(s) : s[i] = p)]
    ELSE [err |-> "none", set |-> s]

\* set.remove: the exception raised ("none" if it returns) and the set afterwards
SetRemove(s, p) ==
    IF Member(p, s)
    THEN [err |-> "none", set |-> RemoveAt(s, CHOOSE i \in 1..Len(s) : s[i] = p)]
    ELSE [err |-> "KeyError", set |-> s]

\* ------------------------------------------------------------- reductions
RECURSIVE FoldAdd(_, _)
FoldAdd(vals, i) == IF i = 0 THEN <<0, 1>> ELSE RatAdd(FoldAdd(vals, i - 1), vals[i])

RECURSIVE FoldMul(_, _)
FoldMul(vals, i) == IF i = 0 THEN <<1, 1>> ELSE RatMul(FoldMul(vals, i - 1), vals[i])

RECURSIVE FoldMax(_, _)
FoldMax(vals, i) ==
    IF i = 1 THEN vals[1]
    ELSE LET m == FoldMax(vals, i - 1) IN IF RatLess(m, vals[i]) THEN vals[i] ELSE m

RECURSIVE FoldMin(_, _)
FoldMin(vals, i) ==
    IF i = 1 THEN vals[1]
    ELSE LET m == FoldMin(vals, i - 1) IN IF RatLess(vals[i], m) THEN vals[i] ELSE m

\* numpy's reductions over a list of numbers
np_sum(vals) == Num(FoldAdd(vals, Len(vals)))
np_product(vals) == Num(FoldMul(vals, Len(vals)))
np_max(vals) == IF vals = <<>> THEN Raised("ValueError") ELSE Num(FoldMax(vals, Len(vals)))
np_min(vals) == IF vals = <<>> THEN Raised("ValueError") ELSE Num(FoldMin(vals, Len(vals)))
np_mean(vals) ==
    IF vals = <<>> THEN NaN
    ELSE Num(RatMul(FoldAdd(vals, Len(vals)), <<1, Len(vals)>>))

\* the registered names of agg_funcs
AggNames == {"mean", "sum", "max", "min", "product"}

\* a reduction that folds the values pairwise, two at a time
RECURSIVE FoldMeanPairwise(_, _)
FoldMeanPairwise(vals, i) ==
    IF i = 1 THEN vals[1]
    ELSE RatMul(RatAdd(FoldMeanPairwise(vals, i - 1), vals[i]), <<1, 2>>)

ApplyAggFunc_pairwise(f, vals) ==
    CASE f = "mean" -> IF vals = <<>> THEN NaN ELSE Num(FoldMeanPairwise(vals, Len(vals)))
      [] f = "sum" -> np_sum(vals)
      [] f = "max" -> np_max(vals)
      [] f = "min" -> np_min(vals)
      [] f = "product" -> np_product(vals)
      [] OTHER -> Num(<<Len(vals), 1>>)

\* self.agg_func(values); the user-supplied callable of the model is len
ApplyAggFunc(f, vals) ==
    CASE f = "mean" -> np_mean(vals)
      [] f = "sum" -> np_sum(vals)
      [] f = "max" -> np_max(vals)
      [] f = "min" -> np_min(vals)
      [] f = "product" -> np_product(vals)
      [] OTHER -> Num(<<Len(vals), 1>>)

\* ----------------------------------------------------------------- values
\* the value a constant leaf was constructed with
LeafValue(l) == IF l % 3 = 0 THEN -1 ELSE l

\* ConstantParameter.value
ConstantValue(l) == Num(<<LeafValue(l), 1>>)

\* the kernel's value (ArrayIndexedParameter, ArrayIndexedScenarioParameter):
\* the row of the timestep, the column of the scenario member
KernelValue(k, ts, si) ==
    IF ts > Len(k.values) THEN Raised("IndexError")
    ELSE IF k.kind = "array" THEN Num(k.values[ts][1])
    ELSE IF si > Len(k.values[ts]) THEN Raised("IndexError")
    ELSE Num(k.values[ts][si])

\* DataFrameParameter.value: self._param is None before a successful setup
DataFrameValue(k, ts, si) ==
    IF k.kind = "None" THEN Raised("AttributeError") ELSE KernelValue(k, ts, si)

ParamValue(p, k, ts, si) == IF p = DF THEN DataFrameValue(k, ts, si) ELSE ConstantValue(p)

\* the first exception a child raises while the values are collected, if any
RECURSIVE FirstRaised(_, _)
FirstRaised(rs, i) ==
    IF i > Len(rs) THEN NoResult
    ELSE IF ~IsNum(rs[i]) THEN rs[i] ELSE FirstRaised(rs, i + 1)

\* AggregatedParameter.value
AggregatedValue(ps, f, k, ts, si) ==
    LET rs == [i \in 1..Len(ps) |-> ParamValue(ps[i], k, ts, si)]
        bad == FirstRaised(rs, 1)
    IN  IF bad.kind # "none" THEN bad
        ELSE ApplyAggFunc(f, [i \in 1..Len(ps) |-> rs[i].q])

\* ScaledProfileParameter.value
ScaledValue(sc, k, ts, si) ==
    LET p == ParamValue(sc.profile, k, ts, si)
    IN  IF IsNum(p) THEN Num(RatMul(sc.scale, p.q)) ELSE p

\* -------------------------------------------------------------- alignment
\* a DatetimeIndex: n timestamps first, first + freq, ...
IndexTime(ix, i) == ix.first + (i - 1) * ix.freq
IndexLast(ix) == IndexTime(ix, ix.n)

\* the data of a source DataFrame: the value at a row and a column
SourceValue(r, c) == r * r + 3 * (c - 1)

\* the number of value columns (a Series, ndim 1, has cols = 0 and one column)
Width(d) == IF d.cols = 0 THEN 1 ELSE d.cols

\* df[start:end]: the rows whose timestamp lies in [start, end]
Slice(d, start, end) ==
    {r \in 1..d.n : start <= IndexTime(d, r) /\ IndexTime(d, r) <= end}

RECURSIVE SumRows(_, _)
SumRows(rows, c) ==
    IF rows = {} THEN 0
    ELSE LET r == CHOOSE x \in rows : TRUE
         IN  SourceValue(r, c) + SumRows(rows \ {r}, c)

\* mean of a column over a set of rows; <<0, 0>> stands for nan (no rows)
MeanRows(rows, c) ==
    IF rows = {} THEN <<0, 0>> ELSE Rat(SumRows(rows, c), Cardinality(rows))

\* the rows of the slice that fall in bin b of df.resample(freq): bins are
\* left-closed, of the grid's length, and start at the slice's first timestamp
Bin(d, rows, origin, freq, b) ==
    {r \in rows : origin + b * freq <= IndexTime(d, r)
                  /\ IndexTime(d, r) < origin + (b + 1) * freq}

\* df.resample(datetime_index.freq).mean(): one row per bin from the first
\* to the last timestamp of the slice
Resample(d, rows, freq) ==
    LET times  == {IndexTime(d, r) : r \in rows}
        origin == CHOOSE t \in times : \A u \in times : t <= u
        final  == CHOOSE t \in times : \A u \in times : u <= t
        nbins  == ((final - origin) \div freq) + 1
    IN  [b \in 1..nbins |->
            [c \in 1..Width(d) |-> MeanRows(Bin(d, rows, origin, freq, b - 1), c)]]

Aligned(err, table) == [err |-> err, table |-> table]

\* align_and_resample_dataframe(df, datetime_index)
align_and_resample_dataframe(d, ix) ==
    LET start == IndexTime(ix, 1)
        end   == IndexLast(ix)
        rows  == Slice(d, start, end)
    IN  IF IndexTime(d, 1) > start THEN Aligned("ValueError", <<>>)
        ELSE IF IndexLast(d) < end THEN Aligned("ValueError", <<>>)
        ELSE IF ix.freq >= d.freq THEN
            IF rows = {} THEN Aligned("IndexError", <<>>)
            ELSE IF \A r \in rows : IndexTime(d, r) # start
                 THEN Aligned("ValueError", <<>>)
            ELSE Aligned("none", Resample(d, rows, ix.freq))
        ELSE Aligned("NotImplementedError", <<>>)

\* what DataFrameParameter.setup makes of the aligned data: the exception it
\* raises, or the kernel it builds
KernelFor_firstColumn(d, sc, table) ==
    [err |-> "none", kernel |-> [kind |-> "array", values |-> table]]

KernelFor(d, sc, table) ==
    IF d.cols = 0 THEN [err |-> "none", kernel |-> [kind |-> "array", values |-> table]]
    ELSE IF d.cols = 1 THEN [err |-> "none", kernel |-> [kind |-> "array", values |-> table]]
    ELSE IF sc = 0 THEN [err |-> "ValueError", kernel |-> NoKernel]
    ELSE IF sc # d.cols THEN [err |-> "ValueError", kernel |-> NoKernel]
    ELSE [err |-> "none", kernel |-> [kind |-> "scenario", values |-> table]]

\* DataFrameParameter.setup: the exception raised ("none" if it returns) and
\* the value of self._param afterwards
DataFrameSetup(d, sc, old, ix) ==
    LET a == align_and_resample_dataframe(d, ix)
        k == KernelFor(d, sc, a.table)
    IN  IF a.err # "none" THEN [err |-> a.err, param |-> old]
        ELSE IF k.err # "none" THEN [err |-> k.err, param |-> old]
        ELSE [err |-> "none", param |-> k.kernel]

\* --------------------------------------------------- AggregatedParameter
\* what the constructor may be given as agg_func: a registered name, a string
\* that is no registered name, a callable, or an object that is neither
AggArgs == AggNames \cup {"median", "callable", "number"}
IsString(f) == f \in AggNames \cup {"median"}

\* the exception __init__ raises while it resolves agg_func
InitError(f) ==
    IF IsString(f) THEN (IF f \in AggNames THEN "none" ELSE "KeyError")
    ELSE IF f = "callable" THEN "none"
    ELSE "TypeError"

AddParent(ps, a) == [p \in Params |-> IF Member(p, ps) THEN parents[p] \cup {a} ELSE parents[p]]

\* AggregatedParameter.__init__(parameters, agg_func)
Construct(a, plist, f) ==
    /\ built[a] = "unbuilt"
    /\ parameters' = [parameters EXCEPT ![a] = SetFromList(plist)]
    /\ parents' = AddParent(SetFromList(plist), a)
    /\ agg_func' = [agg_func EXCEPT ![a] = f]
    /\ built' = [built EXCEPT ![a] = IF InitError(f) = "none" THEN "built" ELSE "failed"]
    /\ last' = [Call("init", a, 0, InitError(f)) EXCEPT !.list = plist]
    /\ result' = NoResult
    /\ reached' = {}
    /\ UNCHANGED <<setupDone, scaled, dfVars>>

AggregatedInit(a, lists) ==
    \E plist \in lists, f \in AggArgs : Construct(a, plist, f)

\* AggregatedParameter.load: a declaration holds no callable; agg_func defaults
\* to "mean" and parameters to the empty list
AggregatedLoad(a, lists) ==
    \E plist \in lists, f \in AggArgs \ {"callable"} : Construct(a, plist, f)

\* AggregatedParameter.add
AggregatedAdd(a, p) ==
    /\ built[a] = "built"
    /\ parameters' = [parameters EXCEPT ![a] = SetAdd(parameters[a], p)]
    /\ parents' = [parents EXCEPT ![p] = parents[p] \cup {a}]
    /\ last' = [Call("add", a, p, "none") EXCEPT !.member = Member(p, parameters[a])]
    /\ result' = NoResult
    /\ reached' = {}
    /\ UNCHANGED <<built, agg_func, setupDone, scaled, dfVars>>

\* AggregatedParameter.remove: line 69 raises KeyError for a non-member; for a
\* member line 70 then reads parameter.parent, an attribute no parameter has
\* (every other line uses parents), and raises before a parents set changes
AggregatedRemove(a, p) ==
    /\ built[a] = "built"
    /\ LET r == SetRemove(parameters[a], p)
       IN  /\ parameters' = [parameters EXCEPT ![a] = r.set]
           /\ last' = [Call("remove", a, p,
                            IF r.err # "none" THEN r.err ELSE "AttributeError")
                       EXCEPT !.member = Member(p, parameters[a])]
    /\ parents' = parents
    /\ result' = NoResult
    /\ reached' = {}
    /\ UNCHANGED <<built, agg_func, setupDone, scaled, dfVars>>

\* AggregatedParameter.__len__
AggregatedLen(a) == Len(parameters[a])

ErrOf(r) == IF r.kind \in {"num", "nan"} THEN "none" ELSE r.kind

\* AggregatedParameter.value(ts, si)
AggregatedValueStep(a, ts, si) ==
    /\ built[a] = "built"
    /\ LET r == AggregatedValue(parameters[a], agg_func[a], param, ts, si)
       IN  /\ result' = r
           /\ last' = [Call("value", a, 0, ErrOf(r)) EXCEPT !.ts = ts, !.si = si]
    /\ reached' = {}
    /\ UNCHANGED <<graphVars, dfVars>>

\* the hook every parameter inherits from the base class: it does nothing
\* and calls no other parameter
BaseHook(p) == {p}

\* the children a loop over self._parameters visits when the child at
\* position stop raises (stop = 0: none raises)
Visited(ps, stop) == {ps[i] : i \in 1..(IF stop = 0 THEN Len(ps) ELSE stop)}

DFPosition(ps) == IF Member(DF, ps) THEN CHOOSE i \in 1..Len(ps) : ps[i] = DF ELSE 0

\* AggregatedParameter.setup(model)
AggregatedSetup(a, ix) ==
    /\ built[a] = "built"
    /\ LET ps == parameters[a]
           s  == DataFrameSetup(df, scenario, param, ix)
           hit == Member(DF, ps)
           failed == hit /\ s.err # "none"
       IN  /\ param' = IF hit THEN s.param ELSE param
           /\ last' = [Call("setup", a, 0, IF failed THEN s.err ELSE "none")
                       EXCEPT !.ix = ix]
           /\ reached' = {a} \cup Visited(ps, IF failed THEN DFPosition(ps) ELSE 0)
    /\ setupDone' = [setupDone EXCEPT ![a] = TRUE]
    /\ result' = NoResult
    /\ UNCHANGED <<built, parameters, agg_func, parents, scaled, df, scenario>>

\* AggregatedParameter.after(timestep) and AggregatedParameter.reset(): h is
\* "after" or "reset"; each child's hook is the inherited one
AggregatedHook(a, h) ==
    /\ built[a] = "built"
    /\ last' = Call(h, a, 0, "none")
    /\ reached' = {a} \cup UNION {BaseHook(p) : p \in Range(parameters[a])}
    /\ result' = NoResult
    /\ UNCHANGED <<graphVars, dfVars>>

\* ------------------------------------------------ ScaledProfileParameter
\* ScaledProfileParameter defines no setup, after or reset: the inherited hook
\* runs, and self.profile is not called
ScaledHook(h) ==
    /\ scaled.built
    /\ last' = Call(h, Scaled, 0, "none")
    /\ reached' = BaseHook(Scaled)
    /\ result' = NoResult
    /\ UNCHANGED <<graphVars, dfVars>>

\* ScaledProfileParameter.value(ts, si)
ScaledValueStep(ts, si) ==
    /\ scaled.built
    /\ LET r == ScaledValue(scaled, param, ts, si)
       IN  /\ result' = r
           /\ last' = [Call("value", Scaled, 0, ErrOf(r)) EXCEPT !.ts = ts, !.si = si]
    /\ reached' = {}
    /\ UNCHANGED <<graphVars, dfVars>>

\* ---------------------------------------------------- DataFrameParameter
\* DataFrameParameter.setup(model)
DataFrameSetupStep(ix) ==
    /\ LET s == DataFrameSetup(df, scenario, param, ix)
       IN  /\ param' = s.param
           /\ last' = [Call("setup", DF, 0, s.err) EXCEPT !.ix = ix]
    /\ reached' = {DF}
    /\ result' = NoResult
    /\ UNCHANGED <<graphVars, df, scenario>>

\* DataFrameParameter defines no after or reset: the inherited hook runs, and
\* the kernel is not called
DataFrameHook(h) ==
    /\ last' = Call(h, DF, 0, "none")
    /\ reached' = BaseHook(DF)
    /\ result' = NoResult
    /\ UNCHANGED <<graphVars, dfVars>>

\* DataFrameParameter.value(ts, scenario_index)
DataFrameValueStep(ts, si) ==
    /\ LET r == DataFrameValue(param, ts, si)
       IN  /\ result' = r
           /\ last' = [Call("value", DF, 0, ErrOf(r)) EXCEPT !.ts = ts, !.si = si]
    /\ reached' = {}
    /\ UNCHANGED <<graphVars, dfVars>>

\* --------------------------------------------------------- specifications
NoScaled == [built |-> FALSE, scale |-> <<0, 1>>, profile |-> DF]
NoSource == [first |-> 0, freq |-> 1, n |-> 1, cols |-> 0]
UnitGrid == [first |-> 0, freq |-> 1, n |-> 1]

\* before any AggregatedParameter is constructed: the constant leaves exist
InitUnbuilt ==
    /\ built = [a \in Aggs |-> "unbuilt"]
    /\ parameters = [a \in Aggs |-> <<>>]
    /\ agg_func = [a \in Aggs |-> "none"]
    /\ parents = [p \in Params |-> {}]
    /\ setupDone = [a \in Aggs |-> FALSE]
    /\ scaled = NoScaled
    /\ df = NoSource
    /\ scenario = 0
    /\ param = NoKernel
    /\ last = Call("none", 0, 0, "none")
    /\ result = NoResult
    /\ reached = {}

Init == InitUnbuilt

\* building and mutating one AggregatedParameter over the constant leaves
Next ==
    \E a \in Aggs :
        \/ AggregatedInit(a, SeqsUpTo(GraphLeaves, MaxListLen))
        \/ AggregatedLoad(a, SeqsUpTo(GraphLeaves, MaxListLen))
        \/ \E p \in GraphLeaves : AggregatedAdd(a, p)
        \/ \E p \in GraphLeaves : AggregatedRemove(a, p)
        \/ AggregatedValueStep(a, 1, 1)
        \/ AggregatedSetup(a, UnitGrid)
        \/ \E h \in {"after", "reset"} : AggregatedHook(a, h)

Spec == Init /\ [][Next]_vars

\* evaluating an AggregatedParameter constructed over any distinct leaves
DistinctLists == {l \in SeqsUpTo(Leaves, NumLeaves) : NoDup(l)}

NextAgg ==
    \E a \in Aggs :
        \/ \E plist \in DistinctLists, f \in AggNames : Construct(a, plist, f)
        \/ AggregatedValueStep(a, 1, 1)

SpecAgg == Init /\ [][NextAgg]_vars

\* the graph Aggregated([DataFrame]) and Scaled(scale, DataFrame) over one
\* DataFrameParameter, any source and scenario binding, before the first setup
Sources ==
    [first : 0..1, freq : 1..3, n : 1..MaxRows, cols : 0..2]
Grids ==
    [first : 0..1, freq : 1..3, n : 1..MaxSteps]
ScenarioSizes == 0..3
Members == 1..3

InitDF ==
    /\ built = [a \in Aggs |-> "built"]
    /\ parameters = [a \in Aggs |-> <<DF>>]
    /\ agg_func = [a \in Aggs |-> "mean"]
    /\ parents = [p \in Params |-> IF p = DF THEN Owners ELSE {}]
    /\ setupDone = [a \in Aggs |-> FALSE]
    /\ scaled = [built |-> TRUE, scale |-> <<-5, 2>>, profile |-> DF]
    /\ df \in Sources
    /\ scenario \in ScenarioSizes
    /\ param = NoKernel
    /\ last = Call("none", 0, 0, "none")
    /\ result = NoResult
    /\ reached = {}

\* the DataFrameParameter called directly
NextDF ==
    \/ \E ix \in Grids : DataFrameSetupStep(ix)
    \/ \E h \in {"after", "reset"} : DataFrameHook(h)
    \/ \E ts \in 1..MaxSteps, si \in Members : DataFrameValueStep(ts, si)

SpecDF == InitDF /\ [][NextDF]_vars

\* the DataFrameParameter called directly and through the nodes that own it
NextHooks ==
    \/ NextDF
    \/ \E ix \in Grids : AggregatedSetup(Agg, ix)
    \/ \E h \in {"setup", "after", "reset"} : ScaledHook(h)
    \/ \E h \in {"after", "reset"} : AggregatedHook(Agg, h)
    \/ \E ts \in 1..MaxSteps, si \in Members : ScaledValueStep(ts, si)
    \/ \E ts \in 1..MaxSteps, si \in Members : AggregatedValueStep(Agg, ts, si)

\* the same graph with no scenario bound to the DataFrameParameter
InitHooks == InitDF /\ scenario = 0

SpecHooks == InitHooks /\ [][NextHooks]_vars

\* ------------------------------------------------------------------ claims
Children(a) == Range(parameters[a])

\* reductions of the values of a set of constant leaves, defined on the set
RECURSIVE RefSum(_)
RefSum(S) ==
    IF S = {} THEN 0
    ELSE LET p == CHOOSE x \in S : TRUE IN LeafValue(p) + RefSum(S \ {p})

RECURSIVE RefProduct(_)
RefProduct(S) ==
    IF S = {} THEN 1
    ELSE LET p == CHOOSE x \in S : TRUE IN LeafValue(p) * RefProduct(S \ {p})

RefMax(S) == CHOOSE v \in {LeafValue(p) : p \in S} : \A q \in S : LeafValue(q) <= v
RefMin(S) == CHOOSE v \in {LeafValue(p) : p \in S} : \A q \in S : v <= LeafValue(q)

\* the reduction f of a non-empty set S of leaves
Reduction(f, S) ==
    CASE f = "mean" -> Rat(RefSum(S), Cardinality(S))
      [] f = "sum" -> <<RefSum(S), 1>>
      [] f = "max" -> <<RefMax(S), 1>>
      [] f = "min" -> <<RefMin(S), 1>>
      [] f = "product" -> <<RefProduct(S), 1>>

ValueCalled(a) == last.op = "value" /\ last.node = a /\ agg_func[a] \in AggNames

\* C1 (as stated): the value of an AggregatedParameter is a number, the
\* reduction of its children's values whatever the iteration order, and for no
\* children the reduction's identity (0 for sum, 1 for product).
C1_Original ==
    \A a \in Aggs :
        ValueCalled(a) =>
            /\ IsNum(result)
            /\ Children(a) # {} => result.q = Reduction(agg_func[a], Children(a))
            /\ (Children(a) = {} /\ agg_func[a] = "sum") => result.q = <<0, 1>>
            /\ (Children(a) = {} /\ agg_func[a] = "product") => result.q = <<1, 1>>

\* C1 (amended): with one child or more the value is the reduction of the
\* children's values whatever the iteration order; with no children sum gives 0
\* and product 1, max and min raise a value error and mean gives nan.
C1_Value ==
    \A a \in Aggs :
        ValueCalled(a) =>
            /\ Children(a) # {} =>
                   result = Num(Reduction(agg_func[a], Children(a)))
            /\ (Children(a) = {} /\ agg_func[a] = "sum") => result = Num(<<0, 1>>)
            /\ (Children(a) = {} /\ agg_func[a] = "product") => result = Num(<<1, 1>>)
            /\ (Children(a) = {} /\ agg_func[a] \in {"max", "min"}) =>
                   result = Raised("ValueError")
            /\ (Children(a) = {} /\ agg_func[a] = "mean") => result = NaN

C1_Witness ==
    /\ ValueCalled(Agg)
    /\ Cardinality(Children(Agg)) = NumLeaves
    /\ agg_func[Agg] = "mean"
    /\ IsNum(result) /\ result.q[2] # 1

\* C2: for every successfully constructed AggregatedParameter a and every
\* parameter p, p is a child of a iff a is in p.parents, and remove of a
\* member returns without an exception.
C2_Symmetric ==
    \A a \in Aggs :
        built[a] = "built" =>
            /\ \A p \in Params : Member(p, parameters[a]) <=> a \in parents[p]
            /\ (last.op = "remove" /\ last.node = a /\ last.member) => last.err = "none"

\* C6: remove of a parameter that is not a child raises KeyError and leaves
\* the child set and every parents set as they were.
C6_RemoveMissing ==
    [][\A a \in Aggs :
          (last'.op = "remove" /\ last'.node = a /\ ~Member(last'.arg, parameters[a])) =>
              /\ last'.err = "KeyError"
              /\ parameters' = parameters
              /\ parents' = parents]_vars

C6_Witness ==
    /\ last.op = "remove" /\ last.err = "KeyError" /\ ~last.member
    /\ parameters[Agg] # <<>>
    /\ \E p \in Params : p # last.arg /\ Agg \in parents[p]

\* C7: a constructor given an agg_func that is neither a registered name nor
\* callable raises TypeError, and no child's parents set holds the object
\* whose construction failed.
C7_FailedInit ==
    \A a \in Aggs :
        /\ (last.op = "init" /\ last.node = a /\ ~(agg_func[a] \in AggNames \cup {"callable"}))
               => last.err = "TypeError"
        /\ built[a] = "failed" => \A p \in Params : a \notin parents[p]

\* C8: add of a parameter that is already a child changes neither the child
\* count, the child set, the parents sets nor the value; a constructor given a
\* list that repeats an object holds each object once.
C8_AddIdempotent ==
    [][\A a \in Aggs :
          /\ (last'.op = "add" /\ last'.node = a /\ Member(last'.arg, parameters[a])) =>
                 /\ AggregatedLen(a)' = AggregatedLen(a)
                 /\ parameters'[a] = parameters[a]
                 /\ parents' = parents
                 /\ AggregatedValue(parameters'[a], agg_func'[a], param', 1, 1)
                        = AggregatedValue(parameters[a], agg_func[a], param, 1, 1)
          /\ (last'.op = "init" /\ last'.node = a) =>
                 /\ Len(parameters'[a]) = Cardinality(Range(last'.list))
                 /\ Range(parameters'[a]) = Range(last'.list)]_vars

C8_Witness ==
    /\ last.op = "add" /\ last.member /\ last.err = "none"
    /\ Len(parameters[Agg]) = 2

\* C10: once setup has been called on an AggregatedParameter, no later step
\* changes its child set or a parents set.
C10_Frozen ==
    [][\A a \in Aggs :
          setupDone[a] => (parameters'[a] = parameters[a] /\ parents' = parents)]_vars

\* the source rows whose timestamp falls in period b of the grid:
\* [first + (b - 1) * freq, first + b * freq)
PeriodRows(d, ix, b) ==
    {r \in 1..d.n : IndexTime(ix, b) <= IndexTime(d, r)
                    /\ IndexTime(d, r) < IndexTime(ix, b) + ix.freq}

\* the first timestamp of the source at or after the grid's start is the start
SliceStartsAtStart(d, ix) ==
    \E r \in 1..d.n : IndexTime(d, r) = IndexTime(ix, 1)

\* the outcome C3 states for a source and a grid
Classified(d, ix) ==
    IF IndexTime(d, 1) > IndexTime(ix, 1) \/ IndexLast(d) < IndexLast(ix) THEN "ValueError"
    ELSE IF d.freq > ix.freq THEN "NotImplementedError"
    ELSE IF ~SliceStartsAtStart(d, ix) THEN "ValueError"
    ELSE "none"

SetupCalled == last.op = "setup" /\ last.node = DF

\* C3: align_and_resample_dataframe raises a value error when the source does
\* not cover the grid, else not-implemented when the source is coarser, else a
\* value error when the slice does not start at the grid's start, and else
\* returns, for each grid period, the mean of all source samples in the period.
C3_Classified ==
    SetupCalled =>
        LET a == align_and_resample_dataframe(df, last.ix)
        IN  /\ a.err = Classified(df, last.ix)
            /\ a.err = "none" =>
                   /\ Len(a.table) = last.ix.n
                   /\ \A b \in 1..last.ix.n, c \in 1..Width(df) :
                          a.table[b][c] = MeanRows(PeriodRows(df, last.ix, b), c)

\* C4: with more than one column setup raises a value error unless a scenario
\* of exactly that size is bound, and then member i reads column i of the
\* aligned table; a series or a single column sets up with or without a
\* scenario and reads the same for every member.
C4_Columns ==
    SetupCalled =>
        LET a == align_and_resample_dataframe(df, last.ix)
        IN  a.err = "none" =>
              /\ (df.cols > 1 /\ scenario # df.cols) =>
                     last.err = "ValueError"
              /\ (df.cols > 1 /\ scenario = df.cols) =>
                     /\ last.err = "none"
                     /\ \A ts \in 1..Len(a.table), i \in 1..df.cols :
                            DataFrameValue(param, ts, i) = Num(a.table[ts][i])
              /\ df.cols <= 1 =>
                     /\ last.err = "none"
                     /\ \A ts \in 1..Len(a.table), i \in Members :
                            DataFrameValue(param, ts, i) = Num(a.table[ts][1])

C4_Witness ==
    /\ SetupCalled /\ last.err = "none"
    /\ df.cols = 2 /\ scenario = 2
    /\ param.kind = "scenario" /\ Len(param.values) >= 2
    /\ param.values[2][1] # param.values[2][2]

\* the parameters a node owns, transitively
Owned(node) ==
    LET kernel == IF param.kind = "None" THEN {} ELSE {Kernel}
        below(p) == IF p = DF THEN {DF} \cup kernel ELSE {p}
    IN  IF node \in Aggs THEN UNION {below(p) : p \in Range(parameters[node])}
        ELSE IF node = Scaled THEN below(scaled.profile)
        ELSE kernel

\* C5: a hook called on a composite node runs on every parameter the node
\* owns, and after setup on a node that owns the DataFrameParameter the
\* DataFrameParameter holds a kernel.
C5_Propagates ==
    /\ (last.op \in {"after", "reset"} /\ last.err = "none")
           => Owned(last.node) \subseteq reached
    /\ (last.op = "setup" /\ last.err = "none")
           => /\ (Owned(last.node) \ {Kernel}) \subseteq reached
              /\ DF \in Owned(last.node) => param.kind # "None"

\* C9: after a setup that raised, the DataFrameParameter holds no kernel.
C9_NoStaleKernel ==
    (SetupCalled /\ last.err # "none") => param.kind = "None"

====
